---- MODULE Spec2Model ----
(***************************************************************************)
(* The two human-in-the-loop examples of bridgic-examples:                 *)
(*   human_in_the_loop/code_assistant.py          (CodeAssistant)          *)
(*   human_in_the_loop/reimbursement_automation.py (ReimbursementWorkflow) *)
(* The workers, the event handler, the drivers (main) and the snapshot     *)
(* persistence are translated from those files.  The GraphAutoma engine    *)
(* they call (scheduler, argument resolver, interaction manager, snapshot  *)
(* codec) is not part of the repository's files; it is modelled from the   *)
(* specification and kept apart in the section "Engine".                   *)
(*                                                                         *)
(* Python values that the code inspects are tagged with their type         *)
(* (PyStr, PyBool, ...), so that a bool and a str are different values.    *)
(* A str the code looks into (strip, ==, in) is a sequence of characters;  *)
(* a long literal text that is only passed on is kept as one token.        *)
(***************************************************************************)
EXTENDS Integers, Sequences, FiniteSets, TLC

VARIABLES
    automa,         \* the GraphAutoma subclass main drives
    pc,             \* main's position
    run,            \* number of arun calls made so far
    status,         \* ExecutionState: run status
    output,         \* ExecutionState: completed worker -> its output
    pending,        \* ExecutionState: workers that have no output yet
    interactions,   \* ExecutionState: unresolved InteractionRecords
    running,        \* workers dispatched and not yet finished
    args,           \* running or finished worker -> the inputs it was given
    feedbacks,      \* the interaction_feedback handed to the current arun
    raised,         \* what the last arun call surfaced to its caller
    dispatchLog,    \* history: the dispatches, in order, each with its inputs
    event,          \* ask_to_run_code: the Event awaiting its Feedback
    handling,       \* where the handling of that Event stands
    sent,           \* Feedbacks the current handler invocation has sent
    typed,          \* history: what the user typed at each handler prompt
    executed,       \* history: the code strings passed to exec
    rejected,       \* history: the code strings printed as rejected
    payments,       \* history: request ids given to lanuch_payment_transaction
    locals,         \* main's local variables
    files,          \* the temporary files standing for the snapshot database
    kwargs,         \* the initial arguments of the run
    failure,        \* the domain error that failed the run
    dbRecord,       \* the row the simulated record database holds
    reference       \* history: the outcome of a run kept for comparison

vars == <<automa, pc, run, status, output, pending, interactions, running, args,
          feedbacks, raised, dispatchLog, event, handling, sent, typed, executed,
          rejected, payments, locals, files, kwargs, failure, dbRecord,
          reference>>

----------------------------------------------------------------------------
(* Python values *)

PyStr(s) == [type |-> "str", value |-> s]
PyBool(b) == [type |-> "bool", value |-> b]
PyInt(i) == [type |-> "int", value |-> i]
PyObj(cls, fields) == [type |-> cls, value |-> fields]
PyNone == [type |-> "NoneType"]
Unbound == [type |-> "unbound"]

YES == <<"y", "e", "s">>
NO == <<"n", "o">>

RECURSIVE LStrip(_, _)
LStrip(s, chars) ==
    IF s # <<>> /\ Head(s) \in chars THEN LStrip(Tail(s), chars) ELSE s

RECURSIVE RStrip(_, _)
RStrip(s, chars) ==
    IF s # <<>> /\ s[Len(s)] \in chars
    THEN RStrip(SubSeq(s, 1, Len(s) - 1), chars)
    ELSE s

\* str.strip(chars): drops leading and trailing characters that are in chars
Strip(s, chars) == RStrip(LStrip(s, chars), chars)

Range(s) == {s[i] : i \in DOMAIN s}

----------------------------------------------------------------------------
(* Inputs from outside the program *)

\* The backquote character (the module's lexer cannot hold it in a string).
BQ == "<backquote>"
FENCE == <<BQ, BQ, BQ>>
FENCE_PYTHON == FENCE \o <<"p", "y", "t", "h", "o", "n">>

\* What the language model may return as CodeBlock.code.
Codes ==
    { FENCE_PYTHON \o <<"\n", "f", "(", ")", "\n">> \o FENCE,
      <<"f", "(", ")">>,
      <<"p", "r", "i", "n", "t", "(", ")">> }

\* What the user may type at the console prompt of can_run_code_handler.
ConsoleInputs == { YES, NO, <<"y">>, <<>>, <<"Y", "E", "S">> }

\* What the manager may type at main's approval prompt.
HumanInputs == { YES, NO, <<"y", "e", "s", " ">>, <<"t", "o", "o", " ", "h", "i", "g", "h">>, <<>> }

\* The interaction ids the engine may generate.
InteractionIds == { "id-a", "id-b" }

\* Reimbursement amounts a record database may hold.
Amounts == { 1024, 2500, 2501 }

----------------------------------------------------------------------------
(* The workflow definitions: the @worker declarations *)

CodeAssistant == "CodeAssistant"
ReimbursementWorkflow == "ReimbursementWorkflow"
Automas == { CodeAssistant, ReimbursementWorkflow }

WorkersOf(a) ==
    IF a = CodeAssistant
    THEN { "generate_code", "ask_to_run_code", "output_result" }
    ELSE { "load_record", "audit_by_rules", "execute_payment" }

AllWorkers == WorkersOf(CodeAssistant) \cup WorkersOf(ReimbursementWorkflow)

is_start(w) == w \in { "generate_code", "load_record" }

\* Mutant of dependencies: output_result names generate_code, the worker its
\* code comes from, as its dependency.
dependencies_code_source(w) ==
    CASE w = "generate_code" -> <<>>
      [] w = "ask_to_run_code" -> <<"generate_code">>
      [] w = "output_result" -> <<"generate_code">>
      [] w = "load_record" -> <<>>
      [] w = "audit_by_rules" -> <<"load_record">>
      [] w = "execute_payment" -> <<"audit_by_rules">>

dependencies(w) ==
    CASE w = "generate_code" -> <<>>
      [] w = "ask_to_run_code" -> <<"generate_code">>
      [] w = "output_result" -> <<"ask_to_run_code">>
      [] w = "load_record" -> <<>>
      [] w = "audit_by_rules" -> <<"load_record">>
      [] w = "execute_payment" -> <<"audit_by_rules">>

\* The parameters of each worker, in declaration order (self left out).
Params(w) ==
    CASE w = "generate_code" -> <<"user_requirement">>
      [] w = "ask_to_run_code" -> <<"code">>
      [] w = "output_result" -> <<"feedback", "code">>
      [] w = "load_record" -> <<"request_id">>
      [] w = "audit_by_rules" -> <<"record">>
      [] w = "execute_payment" -> <<"result", "record">>

NoBinding == "<no From>"

\* Mutant of FromBinding: each binding names the adjacent dependency.
FromBinding_adjacent(w, p) ==
    CASE w = "output_result" /\ p = "code" -> "ask_to_run_code"
      [] w = "execute_payment" /\ p = "record" -> "audit_by_rules"
      [] OTHER -> NoBinding

\* The parameter defaults of the form From("worker").
FromBinding(w, p) ==
    CASE w = "output_result" /\ p = "code" -> "generate_code"
      [] w = "execute_payment" /\ p = "record" -> "load_record"
      [] OTHER -> NoBinding

----------------------------------------------------------------------------
(* Engine: the GraphAutoma the examples call, after the specification *)

NONE == "NONE"              \* no ExecutionState exists yet
RUNNING == "RUNNING"
SUSPENDED == "SUSPENDED"
COMPLETED == "COMPLETED"
FAILED == "FAILED"

NoEvent == [event_type |-> "<none>"]
NotRaised == [type |-> "<nothing>"]
NoFailure == [type |-> "<nothing>"]

\* Event(event_type=..., data=...)
Event(event_type, data) == [event_type |-> event_type, data |-> data]

\* Feedback(data=...)
Feedback(data) == [data |-> data]

\* InteractionFeedback(interaction_id=..., data=...)
InteractionFeedback(interaction_id, data) ==
    [interaction_id |-> interaction_id, data |-> data]

\* register_event_handler("can_run_code", can_run_code_handler)
event_handlers(a) == IF a = CodeAssistant THEN { "can_run_code" } ELSE {}

\* Scheduler: the workers whose dependencies all have an output and that are
\* neither finished nor in execution (a worker without dependencies runs only
\* as an entry point).
Ready(w) ==
    /\ w \in pending
    /\ w \notin running
    /\ dependencies(w) = <<>> => is_start(w)
    /\ \A i \in DOMAIN dependencies(w) : dependencies(w)[i] \in DOMAIN output

IndexOf(seq, x) == CHOOSE i \in DOMAIN seq : seq[i] = x

\* ArgumentResolver: the worker whose output parameter i of w takes, or
\* NoBinding when the parameter comes from the run's initial arguments.
ArgSource(w, i) ==
    IF FromBinding(w, Params(w)[i]) # NoBinding
    THEN FromBinding(w, Params(w)[i])
    ELSE IF i = 1 /\ Len(dependencies(w)) = 1
         THEN dependencies(w)[1]
         ELSE NoBinding

Resolvable(w) ==
    \A i \in DOMAIN Params(w) :
        IF ArgSource(w, i) # NoBinding
        THEN ArgSource(w, i) \in DOMAIN output
        ELSE Params(w)[i] \in DOMAIN kwargs

ResolveArgs(w) ==
    [p \in Range(Params(w)) |->
        IF ArgSource(w, IndexOf(Params(w), p)) # NoBinding
        THEN output[ArgSource(w, IndexOf(Params(w), p))]
        ELSE kwargs[p]]

\* f with x mapped to v
Put(f, x, v) == [y \in DOMAIN f \cup {x} |-> IF y = x THEN v ELSE f[y]]

\* Scheduler: dispatch of one ready worker with its resolved inputs; an input
\* that cannot be resolved fails the run with ResolutionError.
Dispatch(w) ==
    /\ pc = "in_arun"
    /\ status = RUNNING
    /\ Ready(w)
    /\ IF Resolvable(w)
       THEN /\ running' = running \cup {w}
            /\ args' = Put(args, w, ResolveArgs(w))
            /\ dispatchLog' = Append(dispatchLog, [worker |-> w, args |-> ResolveArgs(w)])
            /\ UNCHANGED <<status, failure>>
       ELSE /\ status' = FAILED
            /\ failure' = [type |-> "ResolutionError", worker |-> w]
            /\ UNCHANGED <<running, args, dispatchLog>>
    /\ UNCHANGED <<automa, reference, pc, run, output, pending, interactions, feedbacks,
                   raised, event, handling, sent, typed, executed,
                   rejected, payments, locals, files, kwargs, dbRecord>>

\* Scheduler: worker w returned v.  The run is COMPLETED once every worker
\* has an output.
Complete(w, v) ==
    /\ output' = Put(output, w, v)
    /\ pending' = pending \ {w}
    /\ running' = running \ {w}
    /\ status' = IF status = RUNNING /\ pending \ {w} = {} THEN COMPLETED ELSE status
    /\ UNCHANGED failure

\* Scheduler: worker w raised the domain error err.
Fail(w, err) ==
    /\ status' = FAILED
    /\ failure' = [type |-> err, worker |-> w]
    /\ running' = running \ {w}
    /\ UNCHANGED <<output, pending>>

\* InteractionManager, asynchronous mode: the positions of the unresolved
\* records worker w raised.
RecordsOf(w) == { i \in DOMAIN interactions : interactions[i].worker = w }

\* The supplied feedbacks that answer interaction record rec.
FeedbacksFor(rec) ==
    { j \in DOMAIN feedbacks : feedbacks[j].interaction_id = rec.interaction_id }

\* Whether interact_with_human, called by worker w, returns a feedback now.
HasFeedback(w) ==
    \E i \in RecordsOf(w) : FeedbacksFor(interactions[i]) # {}

\* The feedback interact_with_human returns to worker w.
TheFeedback(w) ==
    LET i == CHOOSE k \in RecordsOf(w) : FeedbacksFor(interactions[k]) # {}
    IN  feedbacks[CHOOSE j \in FeedbacksFor(interactions[i]) : TRUE]

RemoveAt(seq, i) == SubSeq(seq, 1, i - 1) \o SubSeq(seq, i + 1, Len(seq))

\* interactions without the record that TheFeedback(w) resolves
Resolved(w) ==
    RemoveAt(interactions,
             CHOOSE k \in RecordsOf(w) : FeedbacksFor(interactions[k]) # {})

UsedIds == { interactions[i].interaction_id : i \in DOMAIN interactions }

\* interact_with_human found no feedback: the record is kept (or created with
\* a fresh id) and the run is suspended.
Suspend(w, ev, id) ==
    /\ interactions' =
          IF RecordsOf(w) # {}
          THEN interactions
          ELSE Append(interactions,
                      [interaction_id |-> id, event |-> ev, worker |-> w])
    /\ status' = SUSPENDED
    /\ running' = running \ {w}
    /\ UNCHANGED <<output, pending, failure>>

\* SnapshotCodec.  The version tag the engine writes and recognizes.
SERIALIZATION_VERSION == <<"1", ".", "0">>

\* The workers of an automa in declaration order.
WorkerOrder(a) ==
    IF a = CodeAssistant
    THEN <<"generate_code", "ask_to_run_code", "output_result">>
    ELSE <<"load_record", "audit_by_rules", "execute_payment">>

ExecutionState ==
    [automa |-> automa, status |-> status, output |-> output,
     pending |-> pending, interactions |-> interactions]

\* The members of set, in the order of seq.
InOrder(seq, set) == LET In(x) == x \in set IN SelectSeq(seq, In)

\* encode: the state laid out as a flat payload, tagged with the version.
encode(st) ==
    [serialized_bytes |->
        << st.automa,
           st.status,
           [i \in DOMAIN InOrder(WorkerOrder(st.automa), DOMAIN st.output) |->
               << InOrder(WorkerOrder(st.automa), DOMAIN st.output)[i],
                  st.output[InOrder(WorkerOrder(st.automa), DOMAIN st.output)[i]] >>],
           InOrder(WorkerOrder(st.automa), st.pending),
           st.interactions >>,
     serialization_version |-> SERIALIZATION_VERSION]

SnapshotError == [type |-> "SnapshotError"]

\* Mutant of decode: the payload is decoded whatever its version.
decode_any_version(snapshot) ==
    LET b == snapshot.serialized_bytes
    IN  [type |-> "ExecutionState",
         automa |-> b[1],
         status |-> b[2],
         output |-> [w \in { b[3][i][1] : i \in DOMAIN b[3] } |->
                        b[3][CHOOSE i \in DOMAIN b[3] : b[3][i][1] = w][2]],
         pending |-> Range(b[4]),
         interactions |-> b[5]]

\* decode: the state read back from the payload, or SnapshotError for a
\* version the engine does not recognize.
decode(snapshot) ==
    IF snapshot.serialization_version # SERIALIZATION_VERSION
    THEN SnapshotError
    ELSE LET b == snapshot.serialized_bytes
         IN  [type |-> "ExecutionState",
              automa |-> b[1],
              status |-> b[2],
              output |-> [w \in { b[3][i][1] : i \in DOMAIN b[3] } |->
                             b[3][CHOOSE i \in DOMAIN b[3] : b[3][i][1] = w][2]],
              pending |-> Range(b[4]),
              interactions |-> b[5]]

----------------------------------------------------------------------------
(* code_assistant.py: the workers of CodeAssistant and the event handler *)

\* generate_code: the language model returns a CodeBlock, or the call raises.
generate_code ==
    /\ pc = "in_arun"
    /\ "generate_code" \in running
    /\ \E raises \in BOOLEAN :
          IF raises
          THEN Fail("generate_code", "LLMError")
          ELSE \E code \in Codes : Complete("generate_code", PyStr(code))
    /\ UNCHANGED <<automa, reference, pc, run, interactions, args, feedbacks, raised,
                   dispatchLog, event, handling, sent, typed, executed,
                   rejected, payments, locals, files, kwargs, dbRecord>>

\* ask_to_run_code up to its await: the Event is raised and the engine looks
\* for the handler registered for its event_type.
ask_to_run_code_request ==
    /\ pc = "in_arun"
    /\ "ask_to_run_code" \in running
    /\ handling = "idle"
    /\ event' = Event("can_run_code", args["ask_to_run_code"].code.value)
    /\ handling' = IF "can_run_code" \in event_handlers(automa)
                   THEN "invoked" ELSE "unhandled"
    /\ sent' = <<>>
    /\ UNCHANGED <<automa, reference, pc, run, status, output, pending, interactions,
                   running, args, feedbacks, raised, dispatchLog, typed,
                   executed, rejected, payments, locals, files, kwargs,
                   failure, dbRecord>>

\* Mutant of can_run_code_handler_sends: the input is forwarded unchecked.
can_run_code_handler_sends_unchecked(res) == << Feedback(res) >>

\* Mutant of can_run_code_handler_sends: the else branch sends nothing.
can_run_code_handler_sends_no_else(res) ==
    IF res \in { YES, NO }
    THEN << Feedback(res) >>
    ELSE << >>

\* Mutant of can_run_code_handler_sends: the if has no else, so the "no" is
\* sent after the accepted answer as well.
can_run_code_handler_sends_fallthrough(res) ==
    IF res \in { YES, NO }
    THEN << Feedback(res), Feedback(NO) >>
    ELSE << Feedback(NO) >>

\* Mutant of can_run_code_handler_sends: an invalid input counts as "yes".
can_run_code_handler_sends_default_yes(res) ==
    IF res \in { YES, NO }
    THEN << Feedback(res) >>
    ELSE << Feedback(YES) >>

\* The Feedbacks can_run_code_handler sends, in order, when the user types res.
can_run_code_handler_sends(res) ==
    IF res \in { YES, NO }
    THEN << Feedback(res) >>
    ELSE << Feedback(NO) >>

\* can_run_code_handler(event, feedback_sender)
can_run_code_handler ==
    /\ handling = "invoked"
    /\ \E res \in ConsoleInputs :
          /\ sent' = sent \o can_run_code_handler_sends(res)
          /\ typed' = Append(typed, res)
    /\ handling' = "returned"
    /\ UNCHANGED <<automa, reference, pc, run, status, output, pending, interactions,
                   running, args, feedbacks, raised, dispatchLog, event,
                   executed, rejected, payments, locals, files, kwargs,
                   failure, dbRecord>>

\* ask_to_run_code after its await: the first Feedback sent is the value of
\* request_feedback_async, and its data is returned.
ask_to_run_code_return ==
    /\ pc = "in_arun"
    /\ "ask_to_run_code" \in running
    /\ handling = "returned"
    /\ sent # <<>>
    /\ Complete("ask_to_run_code", PyStr(sent[1].data))
    /\ event' = NoEvent
    /\ handling' = "idle"
    /\ UNCHANGED <<automa, reference, pc, run, interactions, args, feedbacks, raised,
                   dispatchLog, sent, typed, executed, rejected,
                   payments, locals, files, kwargs, dbRecord>>

\* code.strip("```python").strip("```")
StripFences(code) ==
    Strip(Strip(code, Range(FENCE_PYTHON)), Range(FENCE))

\* The test that guards exec in output_result.
output_result_runs(feedback) == feedback = PyStr(YES)

\* output_result: exec of the stripped code, which may raise, or the
\* rejection message.
output_result ==
    /\ pc = "in_arun"
    /\ "output_result" \in running
    /\ LET code == StripFences(args["output_result"].code.value)
       IN  IF output_result_runs(args["output_result"].feedback)
           THEN /\ executed' = Append(executed, code)
                /\ \E raises \in BOOLEAN :
                      IF raises
                      THEN Fail("output_result", "error raised by exec")
                      ELSE Complete("output_result", PyNone)
                /\ UNCHANGED rejected
           ELSE /\ rejected' = Append(rejected, code)
                /\ Complete("output_result", PyNone)
                /\ UNCHANGED executed
    /\ UNCHANGED <<automa, reference, pc, run, interactions, args, feedbacks, raised,
                   dispatchLog, event, handling, sent, typed, payments,
                   locals, files, kwargs, dbRecord>>

----------------------------------------------------------------------------
(* reimbursement_automation.py: the workers of ReimbursementWorkflow *)

REQUEST_ID == 123456
EMPLOYEE_ID == 888888
STUB_AMOUNT == 1024
AUDIT_LIMIT == 2500

\* The row load_record_from_database is written to return, with the given
\* reimbursement_amount.
Row(amount) ==
    [employee_id |-> EMPLOYEE_ID,
     employee_name |-> "John Doe",
     reimbursement_month |-> "2025-10",
     reimbursement_amount |-> amount,
     description |-> "Hotel expenses for a business trip",
     created_at |-> "2025-10-11 10:00:00",
     updated_at |-> "2025-10-11 10:00:00"]

load_record_from_database(request_id) ==
    PyObj("ReimbursementRecord",
          [request_id |-> request_id,
           employee_id |-> dbRecord.employee_id,
           employee_name |-> dbRecord.employee_name,
           reimbursement_month |-> dbRecord.reimbursement_month,
           reimbursement_amount |-> dbRecord.reimbursement_amount,
           description |-> dbRecord.description,
           created_at |-> dbRecord.created_at,
           updated_at |-> dbRecord.updated_at])

load_record ==
    /\ pc = "in_arun"
    /\ "load_record" \in running
    /\ Complete("load_record",
                load_record_from_database(args["load_record"].request_id.value))
    /\ UNCHANGED <<automa, reference, pc, run, interactions, args, feedbacks, raised,
                   dispatchLog, event, handling, sent, typed, executed,
                   rejected, payments, locals, files, kwargs, dbRecord>>

\* Mutant of AuditResult: an amount equal to the limit fails the audit too.
AuditResult_at_limit(record) ==
    IF record.reimbursement_amount >= AUDIT_LIMIT
    THEN PyObj("AuditResult",
               [request_id |-> record.request_id,
                passed |-> FALSE,
                audit_reason |-> "The reimbursement amount {record.reimbursement_amount} exceeds the limit of 2500."])
    ELSE PyObj("AuditResult",
               [request_id |-> record.request_id,
                passed |-> TRUE,
                audit_reason |-> "The reimbursement request passed the audit."])

\* The AuditResult audit_by_rules returns for a record.
AuditResult(record) ==
    IF record.reimbursement_amount > AUDIT_LIMIT
    THEN PyObj("AuditResult",
               [request_id |-> record.request_id,
                passed |-> FALSE,
                audit_reason |-> "The reimbursement amount {record.reimbursement_amount} exceeds the limit of 2500."])
    ELSE PyObj("AuditResult",
               [request_id |-> record.request_id,
                passed |-> TRUE,
                audit_reason |-> "The reimbursement request passed the audit."])

audit_by_rules ==
    /\ pc = "in_arun"
    /\ "audit_by_rules" \in running
    /\ Complete("audit_by_rules", AuditResult(args["audit_by_rules"].record.value))
    /\ UNCHANGED <<automa, reference, pc, run, interactions, args, feedbacks, raised,
                   dispatchLog, event, handling, sent, typed, executed,
                   rejected, payments, locals, files, kwargs, dbRecord>>

\* Mutant of ApprovalEvent: the event type of the other example.
ApprovalEvent_can_run_code(result, record) ==
    Event("can_run_code",
          [reimbursement_record |-> record, audit_result |-> result])

\* The Event execute_payment raises.
ApprovalEvent(result, record) ==
    Event("request_approval",
          [reimbursement_record |-> record, audit_result |-> result])

\* Mutant of approved: everything but a plain "no" counts as approval.
approved_unless_no(feedback) == feedback.data # NO

\* The test on the feedback that guards the payment in execute_payment.
approved(feedback) == feedback.data = YES

\* Mutant of execute_payment: the payment is launched before the approval
\* is asked for, and the approval only decides the return value.
execute_payment_pays_first ==
    /\ pc = "in_arun"
    /\ "execute_payment" \in running
    /\ LET result == args["execute_payment"].result
           record == args["execute_payment"].record
       IN  IF ~result.value.passed
           THEN /\ Complete("execute_payment", PyBool(FALSE))
                /\ UNCHANGED <<interactions, payments>>
           ELSE /\ payments' = Append(payments, record.value.request_id)
                /\ IF HasFeedback("execute_payment")
                   THEN /\ interactions' = Resolved("execute_payment")
                        /\ Complete("execute_payment",
                                    PyBool(approved(TheFeedback("execute_payment"))))
                   ELSE \E id \in InteractionIds \ UsedIds :
                           Suspend("execute_payment", ApprovalEvent(result, record), id)
    /\ UNCHANGED <<automa, reference, pc, run, args, feedbacks, raised,
                   dispatchLog, event, handling, sent, typed, executed, rejected,
                   locals, files, kwargs, dbRecord>>

\* execute_payment: False for a failed audit; otherwise interact_with_human,
\* which suspends the run or returns the feedback that decides the payment.
execute_payment ==
    /\ pc = "in_arun"
    /\ "execute_payment" \in running
    /\ LET result == args["execute_payment"].result
           record == args["execute_payment"].record
       IN  IF ~result.value.passed
           THEN /\ Complete("execute_payment", PyBool(FALSE))
                /\ UNCHANGED <<interactions, payments>>
           ELSE IF HasFeedback("execute_payment")
           THEN /\ interactions' = Resolved("execute_payment")
                /\ IF approved(TheFeedback("execute_payment"))
                   THEN /\ payments' = Append(payments, record.value.request_id)
                        /\ Complete("execute_payment", PyBool(TRUE))
                   ELSE /\ Complete("execute_payment", PyBool(FALSE))
                        /\ UNCHANGED payments
           ELSE /\ \E id \in InteractionIds \ UsedIds :
                      Suspend("execute_payment", ApprovalEvent(result, record), id)
                /\ UNCHANGED payments
    /\ UNCHANGED <<automa, reference, pc, run, args, feedbacks, raised, dispatchLog,
                   event, handling, sent, typed, executed, rejected,
                   locals, files, kwargs, dbRecord>>

----------------------------------------------------------------------------
(* The engine's entry points as the drivers use them *)

\* arun(**kwargs): a fresh ExecutionState, RUNNING, every worker pending.
ArunFresh(kw) ==
    /\ run' = run + 1
    /\ kwargs' = kw
    /\ status' = RUNNING
    /\ output' = <<>>
    /\ pending' = WorkersOf(automa)
    /\ interactions' = <<>>
    /\ running' = {}
    /\ args' = <<>>
    /\ feedbacks' = <<>>
    /\ failure' = NoFailure
    /\ pc' = "in_arun"

\* arun(interaction_feedback=fb) on an automa loaded from a snapshot: the
\* run re-enters the readiness loop with the feedback at hand.
ArunResume(fb) ==
    /\ run' = run + 1
    /\ kwargs' = <<>>
    /\ status' = RUNNING
    /\ feedbacks' = << fb >>
    /\ pc' = "in_arun"
    /\ UNCHANGED <<output, pending, interactions, running, args, failure>>

\* Mutant of AfterReturn: main calls arun again after the first return.
AfterReturn_run_again ==
    IF run = 1 THEN "start" ELSE "done"

\* Where main continues when arun returns normally.
AfterReturn ==
    IF automa = ReimbursementWorkflow /\ run = 1 THEN "prompt" ELSE "done"

\* Mutant of AfterRaise: main catches every exception of arun and goes on.
AfterRaise_catch_all(exception) ==
    IF automa = ReimbursementWorkflow /\ run = 1 THEN "except" ELSE "done"

\* Where main continues when arun raises: the first arun of the
\* reimbursement driver is inside try/except InteractionException, and
\* nothing else is caught.
AfterRaise(exception) ==
    IF automa = ReimbursementWorkflow /\ run = 1
       /\ exception.type = "InteractionException"
    THEN "except"
    ELSE "crashed"

\* arun returns: the run is COMPLETED and nothing is in execution.
ArunReturn ==
    /\ pc = "in_arun"
    /\ status = COMPLETED
    /\ running = {}
    /\ raised' = NotRaised
    /\ pc' = AfterReturn
    /\ UNCHANGED <<automa, reference, run, status, output, pending, interactions, running,
                   args, feedbacks, dispatchLog, event, handling, sent,
                   typed, executed, rejected, payments, locals, files,
                   kwargs, failure, dbRecord>>

\* The exception arun raises for a run that is SUSPENDED or FAILED.
Surfaced ==
    IF status = SUSPENDED
    THEN [type |-> "InteractionException",
          interactions |-> [i \in DOMAIN interactions |->
                               [interaction_id |-> interactions[i].interaction_id,
                                event |-> interactions[i].event]],
          snapshot |-> encode(ExecutionState)]
    ELSE [type |-> "ExecutionError", error |-> failure]

\* arun raises: the suspend signal with the pending interactions and the
\* snapshot, or ExecutionError wrapping the worker's error.
ArunRaise ==
    /\ pc = "in_arun"
    /\ status \in { SUSPENDED, FAILED }
    /\ running = {}
    /\ raised' = Surfaced
    /\ pc' = AfterRaise(Surfaced)
    /\ UNCHANGED <<automa, reference, run, status, output, pending, interactions, running,
                   args, feedbacks, dispatchLog, event, handling, sent,
                   typed, executed, rejected, payments, locals, files,
                   kwargs, failure, dbRecord>>

----------------------------------------------------------------------------
(* code_assistant.py: main *)

USER_REQUIREMENT == "Please write a function to print 'Hello, World!' and run it."

code_assistant_main ==
    /\ automa = CodeAssistant
    /\ pc = "start"
    /\ ArunFresh([user_requirement |-> PyStr(USER_REQUIREMENT)])
    /\ UNCHANGED <<automa, reference, raised, dispatchLog, event, handling, sent,
                   typed, executed, rejected, payments, locals, files,
                   dbRecord>>

----------------------------------------------------------------------------
(* reimbursement_automation.py: main and the snapshot persistence *)

TempDirs == { "/tmp/tmpaaaa", "/tmp/tmpbbbb" }

\* os.linesep of the platform the driver runs on (POSIX).
LINESEP == <<"\n">>

\* Text-mode write: every "\n" is written as os.linesep.
RECURSIVE TextWrite(_)
TextWrite(s) ==
    IF s = <<>> THEN <<>>
    ELSE IF Head(s) = "\n"
         THEN LINESEP \o TextWrite(Tail(s))
         ELSE <<Head(s)>> \o TextWrite(Tail(s))

\* Text-mode read: universal newlines, "\r\n" and "\r" are read as "\n".
RECURSIVE TextRead(_)
TextRead(s) ==
    IF s = <<>> THEN <<>>
    ELSE IF Head(s) = "\r"
         THEN IF Len(s) >= 2 /\ s[2] = "\n"
              THEN <<"\n">> \o TextRead(SubSeq(s, 3, Len(s)))
              ELSE <<"\n">> \o TextRead(Tail(s))
         ELSE <<Head(s)>> \o TextRead(Tail(s))

\* The db_context save_snapshot_to_database returns for temporary directory d.
DbContext(d) ==
    [bytes_file |-> <<d, "reimbursement_workflow.bytes">>,
     version_file |-> <<d, "reimbursement_workflow.version">>,
     temp_dir |-> d]

\* The files after save_snapshot_to_database(snapshot) in directory d.
save_snapshot_to_database(fs, snapshot, d) ==
    Put(Put(fs, DbContext(d).bytes_file, snapshot.serialized_bytes),
        DbContext(d).version_file, TextWrite(snapshot.serialization_version))

\* The Snapshot load_snapshot_from_database(db_context) returns.
load_snapshot_from_database(fs, db_context) ==
    [serialized_bytes |-> fs[db_context.bytes_file],
     serialization_version |-> TextRead(fs[db_context.version_file])]

\* No run has been kept for comparison.
NoReference == [type |-> "<nothing>"]

NoLocals ==
    [interaction_id |-> Unbound, record |-> Unbound, db_context |-> Unbound,
     human_feedback |-> Unbound, snapshot |-> Unbound]

Crash(error) ==
    /\ pc' = "crashed"
    /\ raised' = [type |-> error]

\* main, lines 114-116: the workflow is built and run for request 123456.
main_arun ==
    /\ automa = ReimbursementWorkflow
    /\ pc = "start"
    /\ ArunFresh([request_id |-> PyInt(REQUEST_ID)])
    /\ UNCHANGED <<automa, reference, raised, dispatchLog, event, handling, sent,
                   typed, executed, rejected, payments, locals, files,
                   dbRecord>>

\* main, lines 117-124: the except block keeps the interaction id and the
\* record and saves the snapshot.
main_except ==
    /\ pc = "except"
    /\ \E d \in TempDirs :
          /\ files' = save_snapshot_to_database(files, raised.snapshot, d)
          /\ locals' = [locals EXCEPT
                 !.interaction_id = PyStr(raised.interactions[1].interaction_id),
                 !.record = raised.interactions[1].event.data.reimbursement_record,
                 !.db_context = PyObj("dict", DbContext(d))]
    /\ pc' = "prompt"
    /\ UNCHANGED <<automa, reference, run, status, output, pending, interactions, running,
                   args, feedbacks, raised, dispatchLog, event, handling, sent,
                   typed, executed, rejected, payments, kwargs, failure,
                   dbRecord>>

\* main, lines 126-138: the prompt shows the record and reads the answer.
main_prompt ==
    /\ pc = "prompt"
    /\ IF locals.record.type = "unbound"
       THEN /\ Crash("UnboundLocalError")
            /\ UNCHANGED locals
       ELSE /\ \E answer \in HumanInputs :
                  locals' = [locals EXCEPT !.human_feedback = PyStr(answer)]
            /\ pc' = "load"
            /\ UNCHANGED raised
    /\ UNCHANGED <<automa, reference, run, status, output, pending, interactions, running,
                   args, feedbacks, dispatchLog, event, handling, sent,
                   typed, executed, rejected, payments, files, kwargs,
                   failure, dbRecord>>

\* main, line 141: the snapshot is read back from the files.
main_load_snapshot ==
    /\ pc = "load"
    /\ IF locals.db_context.type = "unbound"
       THEN /\ Crash("UnboundLocalError")
            /\ UNCHANGED locals
       ELSE /\ locals' = [locals EXCEPT !.snapshot =
                   PyObj("Snapshot",
                         load_snapshot_from_database(files, locals.db_context.value))]
            /\ pc' = "load_from_snapshot"
            /\ UNCHANGED raised
    /\ UNCHANGED <<automa, reference, run, status, output, pending, interactions, running,
                   args, feedbacks, dispatchLog, event, handling, sent,
                   typed, executed, rejected, payments, files, kwargs,
                   failure, dbRecord>>

\* Mutant of main_load_from_snapshot: main builds a new ReimbursementWorkflow
\* and leaves the snapshot aside.
main_load_from_snapshot_fresh ==
    /\ pc = "load_from_snapshot"
    /\ status' = SUSPENDED
    /\ output' = <<>>
    /\ pending' = WorkersOf(automa)
    /\ interactions' = <<>>
    /\ running' = {}
    /\ args' = <<>>
    /\ feedbacks' = <<>>
    /\ failure' = NoFailure
    /\ kwargs' = <<>>
    /\ pc' = "resume"
    /\ UNCHANGED <<automa, reference, run, raised, dispatchLog, event, handling,
                   sent, typed, executed, rejected, payments, locals, files,
                   dbRecord>>

\* main, line 143: a new ReimbursementWorkflow holds the decoded state.
main_load_from_snapshot ==
    /\ pc = "load_from_snapshot"
    /\ LET st == decode(locals.snapshot.value)
       IN  IF st.type = "SnapshotError"
           THEN /\ Crash("SnapshotError")
                /\ UNCHANGED <<status, output, pending, interactions, running,
                               args, feedbacks, failure, kwargs>>
           ELSE /\ status' = st.status
                /\ output' = st.output
                /\ pending' = st.pending
                /\ interactions' = st.interactions
                /\ running' = {}
                /\ args' = <<>>
                /\ feedbacks' = <<>>
                /\ failure' = NoFailure
                /\ kwargs' = <<>>
                /\ pc' = "resume"
                /\ UNCHANGED raised
    /\ UNCHANGED <<automa, reference, run, dispatchLog, event, handling, sent,
                   typed, executed, rejected, payments, locals, files,
                   dbRecord>>

\* Mutant of ResumeFeedback: the id is read from the record, not from the
\* interaction.
ResumeFeedback_from_record ==
    InteractionFeedback(locals.record.value.employee_name, locals.human_feedback.value)

\* Mutant of ResumeFeedback: the answer typed at the prompt is not passed
\* on, the data is always "no".
ResumeFeedback_always_no ==
    InteractionFeedback(locals.interaction_id.value, NO)

\* main, lines 146-149: the feedback main builds for the resumed run.
ResumeFeedback ==
    InteractionFeedback(locals.interaction_id.value, locals.human_feedback.value)

\* main, lines 146-150: the feedback is built and the run resumed.
main_resume ==
    /\ pc = "resume"
    /\ ArunResume(ResumeFeedback)
    /\ UNCHANGED <<automa, reference, raised, dispatchLog, event, handling, sent,
                   typed, executed, rejected, payments, locals, files,
                   dbRecord>>

----------------------------------------------------------------------------
(* The specifications *)

InitExcept(row) ==
    /\ automa \in Automas
    /\ pc = "start"
    /\ run = 0
    /\ status = NONE
    /\ output = <<>>
    /\ pending = {}
    /\ interactions = <<>>
    /\ running = {}
    /\ args = <<>>
    /\ feedbacks = <<>>
    /\ raised = NotRaised
    /\ dispatchLog = <<>>
    /\ event = NoEvent
    /\ handling = "idle"
    /\ sent = <<>>
    /\ typed = <<>>
    /\ executed = <<>>
    /\ rejected = <<>>
    /\ payments = <<>>
    /\ locals = NoLocals
    /\ files = <<>>
    /\ kwargs = <<>>
    /\ failure = NoFailure
    /\ dbRecord = row
    /\ reference = NoReference

\* The program as written: the simulated database holds the one row of
\* load_record_from_database.
Init == InitExcept(Row(STUB_AMOUNT))

\* The program with a record database that may hold any amount.
InitAnyRecord == \E amount \in Amounts : InitExcept(Row(amount))

Next ==
    \/ code_assistant_main
    \/ main_arun
    \/ \E w \in AllWorkers : Dispatch(w)
    \/ generate_code
    \/ ask_to_run_code_request
    \/ can_run_code_handler
    \/ ask_to_run_code_return
    \/ output_result
    \/ load_record
    \/ audit_by_rules
    \/ execute_payment
    \/ ArunReturn
    \/ ArunRaise
    \/ main_except
    \/ main_prompt
    \/ main_load_snapshot
    \/ main_load_from_snapshot
    \/ main_resume

Spec == Init /\ [][Next]_vars

SpecAnyRecord == InitAnyRecord /\ [][Next]_vars

\* Every step of the program that can be taken is eventually taken: the
\* event loop runs every ready task, workers and handlers terminate, and
\* the people asked at a prompt answer.
FairSpec == Spec /\ WF_vars(Next)

----------------------------------------------------------------------------
(* Claims *)

----------------------------------------------------------------------------
(* The run a resumed run is compared with: the same workflow run afresh on  *)
(* the same request, with the interaction answered in process               *)

\* What interact_with_human returns when the manager's answer is given in
\* process: a Feedback with the data main's prompt received.
InProcessFeedback == Feedback(locals.human_feedback.value)

\* The resumed run has completed: its dispatches, outputs and payments are
\* kept, and the workflow is run afresh on the same request.
in_process_arun ==
    /\ automa = ReimbursementWorkflow
    /\ pc = "done"
    /\ run = 2
    /\ status = COMPLETED
    /\ reference = NoReference
    /\ reference' = [type |-> "run", dispatchLog |-> dispatchLog,
                     output |-> output, payments |-> payments]
    /\ ArunFresh([request_id |-> PyInt(REQUEST_ID)])
    /\ UNCHANGED <<automa, raised, dispatchLog, event, handling, sent,
                   typed, executed, rejected, payments, locals, files,
                   dbRecord>>

\* execute_payment in the compared run: interact_with_human returns the
\* feedback at once and the run is not suspended.
execute_payment_in_process ==
    /\ pc = "in_arun"
    /\ reference # NoReference
    /\ "execute_payment" \in running
    /\ LET result == args["execute_payment"].result
           record == args["execute_payment"].record
       IN  IF ~result.value.passed
           THEN /\ Complete("execute_payment", PyBool(FALSE))
                /\ UNCHANGED payments
           ELSE IF approved(InProcessFeedback)
           THEN /\ payments' = Append(payments, record.value.request_id)
                /\ Complete("execute_payment", PyBool(TRUE))
           ELSE /\ Complete("execute_payment", PyBool(FALSE))
                /\ UNCHANGED payments
    /\ UNCHANGED <<automa, reference, pc, run, interactions, args, feedbacks,
                   raised, dispatchLog, event, handling, sent, typed, executed,
                   rejected, locals, files, kwargs, dbRecord>>

\* The program, followed by the compared run of the reimbursement workflow.
NextEquivalence ==
    \/ reference = NoReference /\ Next
    \/ in_process_arun
    \/ reference # NoReference /\ \E w \in AllWorkers : Dispatch(w)
    \/ reference # NoReference /\ load_record
    \/ reference # NoReference /\ audit_by_rules
    \/ execute_payment_in_process
    \/ reference # NoReference /\ ArunReturn

SpecEquivalence == InitAnyRecord /\ [][NextEquivalence]_vars

----------------------------------------------------------------------------
(* The program with a snapshot database that other engines write to *)

\* Version tags an engine of another release writes, or that a stored tag
\* turns into (a line end added, an empty file).
OtherVersions ==
    { <<"2", ".", "0">>, <<"1", ".", "0", "\n">>, <<"1", ".", "1">>, <<>> }

\* While main waits at the prompt, the stored version tag is replaced.
version_file_replaced ==
    /\ pc = "prompt"
    /\ locals.db_context.type # "unbound"
    /\ \E v \in OtherVersions :
          /\ files[locals.db_context.value.version_file] # v
          /\ files' = Put(files, locals.db_context.value.version_file, v)
    /\ UNCHANGED <<automa, reference, pc, run, status, output, pending,
                   interactions, running, args, feedbacks, raised, dispatchLog,
                   event, handling, sent, typed, executed, rejected, payments,
                   locals, kwargs, failure, dbRecord>>

NextAnySnapshot ==
    \/ Next
    \/ version_file_replaced

SpecAnySnapshot == Init /\ [][NextAnySnapshot]_vars

----------------------------------------------------------------------------
(* save_snapshot_to_database and load_snapshot_from_database on their own, *)
(* applied to any Snapshot                                                  *)

MaxVersionLen == 3

\* The characters a serialization_version is made of here.
VersionChars == { "1", ".", "0", "\n", "\r" }

\* The strings over chars of length up to n.
Strings(chars, n) == UNION { [1..k -> chars] : k \in 0..n }

\* serialized_bytes values: byte strings, as sequences of byte values.
Payloads == { <<>>, <<13, 10>>, <<0, 255, 13>> }

Snapshots ==
    { [serialized_bytes |-> b, serialization_version |-> v] :
        b \in Payloads, v \in Strings(VersionChars, MaxVersionLen) }

\* A Snapshot is about to be handed to save_snapshot_to_database.
InitPersistence ==
    /\ automa = ReimbursementWorkflow
    /\ pc = "save"
    /\ run = 0
    /\ status = NONE
    /\ output = <<>>
    /\ pending = {}
    /\ interactions = <<>>
    /\ running = {}
    /\ args = <<>>
    /\ feedbacks = <<>>
    /\ raised = NotRaised
    /\ dispatchLog = <<>>
    /\ event = NoEvent
    /\ handling = "idle"
    /\ sent = <<>>
    /\ typed = <<>>
    /\ executed = <<>>
    /\ rejected = <<>>
    /\ payments = <<>>
    /\ locals = NoLocals
    /\ files = <<>>
    /\ \E s \in Snapshots : kwargs = [snapshot |-> s]
    /\ failure = NoFailure
    /\ dbRecord = Row(STUB_AMOUNT)
    /\ reference = NoReference

\* db_context = await save_snapshot_to_database(snapshot)
persistence_save ==
    /\ pc = "save"
    /\ \E d \in TempDirs :
          /\ files' = save_snapshot_to_database(files, kwargs.snapshot, d)
          /\ locals' = [locals EXCEPT !.db_context = PyObj("dict", DbContext(d))]
    /\ pc' = "saved"
    /\ UNCHANGED <<automa, reference, run, status, output, pending,
                   interactions, running, args, feedbacks, raised, dispatchLog,
                   event, handling, sent, typed, executed, rejected, payments,
                   kwargs, failure, dbRecord>>

\* snapshot = await load_snapshot_from_database(db_context)
persistence_load ==
    /\ pc = "saved"
    /\ locals' = [locals EXCEPT !.snapshot =
          PyObj("Snapshot",
                load_snapshot_from_database(files, locals.db_context.value))]
    /\ pc' = "loaded"
    /\ UNCHANGED <<automa, reference, run, status, output, pending,
                   interactions, running, args, feedbacks, raised, dispatchLog,
                   event, handling, sent, typed, executed, rejected, payments,
                   files, kwargs, failure, dbRecord>>

NextPersistence ==
    \/ persistence_save
    \/ persistence_load

SpecPersistence == InitPersistence /\ [][NextPersistence]_vars

\* SpecAnyRecord with every step that can be taken eventually taken.
FairSpecAnyRecord == SpecAnyRecord /\ WF_vars(Next)

\* The chains the claims name: generate_code -> ask_to_run_code ->
\* output_result and load_record -> audit_by_rules -> execute_payment.
ChainBefore(w) ==
    CASE w = "ask_to_run_code" -> { "generate_code" }
      [] w = "output_result" -> { "generate_code", "ask_to_run_code" }
      [] w = "audit_by_rules" -> { "load_record" }
      [] w = "execute_payment" -> { "load_record", "audit_by_rules" }
      [] OTHER -> {}

\* C1: whenever a worker is dispatched, in a first run or in a resumed one,
\* every worker before it in its chain already has an output.
C1_DispatchedAfterDependencies ==
    [][Len(dispatchLog') > Len(dispatchLog) =>
          /\ dispatchLog'[Len(dispatchLog')].worker \in running'
          /\ ChainBefore(dispatchLog'[Len(dispatchLog')].worker) \subseteq DOMAIN output
          /\ \A w \in running' \ running :
                w = dispatchLog'[Len(dispatchLog')].worker
      ]_vars
    /\ [](\A w \in running \cup DOMAIN output :
            /\ ChainBefore(w) \subseteq DOMAIN output
            /\ \E i \in DOMAIN dispatchLog : dispatchLog[i].worker = w)

\* C1 witness: execute_payment is dispatched again in the resumed run.
C1_Witness ==
    /\ run = 2
    /\ "execute_payment" \in running
    /\ Len(dispatchLog) = 4


\* C2: on a fresh run whose audit passed, the step of execute_payment that
\* requests the interaction takes the run from RUNNING to SUSPENDED; while
\* the run is SUSPENDED no worker is dispatched; and what arun raises is an
\* InteractionException with exactly one interaction, which has the id of the
\* pending record and the request_approval event of execute_payment, and
\* with a snapshot that decodes to the execution state.
C2_FreshRunSuspends ==
    /\ [][ ( /\ run = 1
             /\ "execute_payment" \in running
             /\ "execute_payment" \notin running'
             /\ args["execute_payment"].result.value.passed )
           => ( /\ status = RUNNING
                /\ status' = SUSPENDED
                /\ Len(interactions') = 1
                /\ "execute_payment" \in pending' )
       ]_vars
    /\ [][ status = SUSPENDED => dispatchLog' = dispatchLog /\ running' = {} ]_vars
    /\ [](pc = "except" =>
            /\ status = SUSPENDED
            /\ raised.type = "InteractionException"
            /\ Len(raised.interactions) = 1
            /\ Len(interactions) = 1
            /\ raised.interactions[1].interaction_id = interactions[1].interaction_id
            /\ raised.interactions[1].interaction_id \in InteractionIds
            /\ raised.interactions[1].event.event_type = "request_approval"
            /\ raised.interactions[1].event =
                  ApprovalEvent(output["audit_by_rules"], output["load_record"])
            /\ decode(raised.snapshot).status = SUSPENDED
            /\ decode(raised.snapshot).output = output
            /\ decode(raised.snapshot).pending = pending
            /\ decode(raised.snapshot).interactions = interactions)

\* C2 witness: the first arun of the reimbursement driver has raised the
\* suspend signal.
C2_Witness ==
    /\ pc = "except"
    /\ run = 1
    /\ status = SUSPENDED
    /\ raised.type = "InteractionException"
    /\ output["audit_by_rules"].value.passed


\* C3: main resumes with a feedback that carries the id of the pending
\* interaction; whatever its data, the resumed run is never SUSPENDED again,
\* no interaction record is left once execute_payment has run, and the run
\* reaches COMPLETED, from where arun returns.
C3_ResumeCompletes ==
    /\ [](pc = "resume" =>
            /\ status = SUSPENDED
            /\ Len(interactions) = 1
            /\ ResumeFeedback.interaction_id = interactions[1].interaction_id
            /\ ResumeFeedback.data \in HumanInputs)
    /\ [](run = 2 =>
            /\ status \in { RUNNING, COMPLETED }
            /\ "execute_payment" \in DOMAIN output => interactions = <<>>
            /\ pc \in { "in_arun", "done" })
    /\ (pc = "resume" ~> (pc = "done" /\ status = COMPLETED /\ interactions = <<>>))

\* C3 witness: a run resumed with a free-text answer has completed.
C3_Witness ==
    /\ run = 2
    /\ pc = "done"
    /\ status = COMPLETED
    /\ feedbacks[1].data \notin { YES, NO }
    /\ interactions = <<>>

\* C4 as stated: after the resume the output recorded for execute_payment is
\* the data of the feedback.
C4_OutputIsFeedbackData ==
    (automa = ReimbursementWorkflow /\ run = 2 /\ status = COMPLETED) =>
        output["execute_payment"] = PyStr(feedbacks[1].data)

\* C4 amended: the feedback reaches the body of execute_payment, and the
\* output recorded for execute_payment is what the body then returns: True
\* when the data is "yes" and False for any other data.
C4_OutputIsPaymentDecision ==
    (automa = ReimbursementWorkflow /\ run = 2 /\ status = COMPLETED) =>
        /\ feedbacks[1].data = locals.human_feedback.value
        /\ output["execute_payment"] = PyBool(feedbacks[1].data = YES)

\* C4 witness: a run resumed with "no" has completed.
C4_Witness ==
    /\ automa = ReimbursementWorkflow
    /\ run = 2
    /\ status = COMPLETED
    /\ feedbacks[1].data = NO
    /\ output["execute_payment"] = PyBool(FALSE)

\* C5: a payment is launched only by a step of execute_payment that holds a
\* passed audit result and a feedback whose data is exactly "yes"; a run
\* resumed with any other data ends with execute_payment returning False and
\* with no payment launched; and at most the one payment of the request is
\* ever recorded.
C5_PaymentOnlyOnYes ==
    /\ [][ payments' # payments =>
             /\ "execute_payment" \in running
             /\ args["execute_payment"].result.value.passed
             /\ HasFeedback("execute_payment")
             /\ TheFeedback("execute_payment").data = YES
             /\ locals.human_feedback.value = YES
             /\ payments' = Append(payments, REQUEST_ID)
       ]_vars
    /\ [](payments # <<>> =>
            /\ output["audit_by_rules"].value.passed
            /\ locals.human_feedback = PyStr(YES))
    /\ []((run = 2 /\ status = COMPLETED /\ feedbacks[1].data # YES) =>
            /\ output["execute_payment"] = PyBool(FALSE)
            /\ payments = <<>>)
    /\ []((status = COMPLETED /\ automa = ReimbursementWorkflow
           /\ ~output["audit_by_rules"].value.passed) =>
            /\ output["execute_payment"] = PyBool(FALSE)
            /\ payments = <<>>)

\* C5 witness: the payment has been launched after a "yes".
C5_Witness ==
    /\ payments = << REQUEST_ID >>
    /\ status = COMPLETED
    /\ output["execute_payment"] = PyBool(TRUE)
    /\ feedbacks[1].data = YES


\* C6: every dispatch of output_result is given generate_code's recorded
\* output as code and ask_to_run_code's as feedback; every dispatch of
\* execute_payment is given load_record's recorded output as record and
\* audit_by_rules' as result; and the worker in execution holds those inputs.
C6_FromBindingReceivesSourceOutput ==
    /\ \A i \in DOMAIN dispatchLog :
          /\ dispatchLog[i].worker = "output_result" =>
                /\ dispatchLog[i].args.code = output["generate_code"]
                /\ dispatchLog[i].args.feedback = output["ask_to_run_code"]
          /\ dispatchLog[i].worker = "execute_payment" =>
                /\ dispatchLog[i].args.record = output["load_record"]
                /\ dispatchLog[i].args.result = output["audit_by_rules"]
    /\ "output_result" \in running =>
          /\ args["output_result"].code = output["generate_code"]
          /\ args["output_result"].code.value \in Codes
          /\ args["output_result"].feedback = output["ask_to_run_code"]
    /\ "execute_payment" \in running =>
          /\ args["execute_payment"].record = output["load_record"]
          /\ args["execute_payment"].record.type = "ReimbursementRecord"
          /\ args["execute_payment"].result = output["audit_by_rules"]

\* C6 witness: output_result is in execution with the fenced code that
\* generate_code returned two workers earlier.
C6_Witness ==
    /\ "output_result" \in running
    /\ args["output_result"].code = output["generate_code"]
    /\ Len(args["output_result"].code.value) > Len(FENCE_PYTHON)
    /\ args["output_result"].code # args["output_result"].feedback

Allowed ==
    { <<RUNNING, COMPLETED>>, <<RUNNING, SUSPENDED>>, <<RUNNING, FAILED>>,
      <<SUSPENDED, RUNNING>> }

\* C7: the status of a run changes only along RUNNING -> COMPLETED,
\* RUNNING -> SUSPENDED, RUNNING -> FAILED and SUSPENDED -> RUNNING (a run
\* starts as RUNNING); it leaves SUSPENDED only by a resume whose feedback
\* has the id of the pending interaction; and once it is COMPLETED or FAILED
\* it stays so and nothing is dispatched.
C7_StatusTransitions ==
    /\ [][ status' # status =>
             \/ <<status, status'>> \in Allowed
             \/ status = NONE /\ status' = RUNNING
       ]_vars
    /\ [][ (status = SUSPENDED /\ status' = RUNNING) =>
             /\ Len(interactions) = 1
             /\ Len(feedbacks') = 1
             /\ feedbacks'[1].interaction_id = interactions[1].interaction_id
       ]_vars
    /\ [][ (status \in { COMPLETED, FAILED }) =>
             /\ status' = status
             /\ dispatchLog' = dispatchLog
             /\ running' = running
       ]_vars

\* C7 witness: a run that went RUNNING, SUSPENDED, RUNNING, COMPLETED.
C7_Witness ==
    /\ run = 2
    /\ status = COMPLETED
    /\ pc = "done"
    /\ raised = NotRaised


\* C8 as stated: every arun call that has ended left the run COMPLETED or
\* FAILED.
C8_RunEndsCompletedOrFailed ==
    pc \notin { "start", "in_arun" } => status \in { COMPLETED, FAILED }

\* C8 amended: every arun call ends, and it ends with the run COMPLETED,
\* FAILED or SUSPENDED; it is SUSPENDED only with an interaction pending,
\* and a run that is still RUNNING always has a step to take.
C8_RunEnds ==
    /\ (pc = "in_arun" ~> pc # "in_arun")
    /\ [](pc \notin { "start", "in_arun" } =>
            status \in { COMPLETED, FAILED, SUSPENDED })
    /\ [](status = SUSPENDED => interactions # <<>> /\ pending # {})
    /\ [](status = COMPLETED => pending = {} /\ DOMAIN output = WorkersOf(automa))
    /\ [](pc = "in_arun" => ENABLED Next)

\* C8 witness: the first run of the reimbursement workflow has ended, and it
\* is SUSPENDED.
C8_Witness ==
    /\ run = 1
    /\ pc # "in_arun"
    /\ status = SUSPENDED
    /\ interactions # <<>>

\* The workers after w in the chains the claims name.
ChainAfter(w) == { v \in AllWorkers : w \in ChainBefore(v) }

\* C9: once a worker has raised a domain error the run is FAILED and
\* nothing is dispatched any more; the failed worker has no output; no worker
\* after it in its chain has been dispatched; arun raises ExecutionError
\* wrapping the error and main lets it out; and if the failed worker is
\* generate_code, no event was raised, the user was not asked and no code
\* was executed or printed.
C9_DomainErrorFailsRun ==
    /\ [](failure # NoFailure =>
            /\ status = FAILED
            /\ failure.worker \notin DOMAIN output
            /\ \A w \in ChainAfter(failure.worker) :
                  /\ w \notin running
                  /\ w \notin DOMAIN output
                  /\ \A i \in DOMAIN dispatchLog : dispatchLog[i].worker # w
            /\ pc \in { "in_arun", "crashed" }
            /\ pc = "crashed" =>
                  raised = [type |-> "ExecutionError", error |-> failure]
            /\ failure.worker = "generate_code" =>
                  /\ event = NoEvent
                  /\ typed = <<>>
                  /\ executed = <<>>
                  /\ rejected = <<>>)
    /\ [][ failure # NoFailure =>
             /\ dispatchLog' = dispatchLog
             /\ failure' = failure
             /\ output' = output
       ]_vars

\* C9 witness: generate_code has failed and main has ended with the
\* ExecutionError.
C9_Witness ==
    /\ failure # NoFailure
    /\ failure.worker = "generate_code"
    /\ status = FAILED
    /\ pc = "crashed"
    /\ raised.type = "ExecutionError"

\* C10: when can_run_code_handler has returned, it has sent exactly one
\* Feedback; the data of that Feedback is "yes" or "no": what the user typed
\* if that was "yes" or "no", and "no" for any other input.
C10_HandlerSendsOnce ==
    /\ handling = "invoked" => sent = <<>>
    /\ handling = "returned" =>
          /\ Len(typed) = 1
          /\ Len(sent) = 1
          /\ sent[1].data \in { YES, NO }
          /\ typed[1] \in { YES, NO } => sent[1].data = typed[1]
          /\ typed[1] \notin { YES, NO } => sent[1].data = NO

\* C10 witness: the handler has returned after an input that is neither
\* "yes" nor "no".
C10_Witness ==
    /\ handling = "returned"
    /\ typed[1] \notin { YES, NO }
    /\ sent = << Feedback(NO) >>


\* C11: a run of CodeAssistant, whose can_run_code event has a registered
\* handler, is never SUSPENDED and holds no interaction record; the step in
\* which ask_to_run_code returns happens while the run is RUNNING and records
\* as its output the data of the one Feedback the handler sent; and every
\* dispatch of output_result is given that same value as feedback.
C11_SyncFeedbackReturned ==
    /\ [](automa = CodeAssistant =>
            /\ status # SUSPENDED
            /\ interactions = <<>>
            /\ raised.type # "InteractionException"
            /\ "ask_to_run_code" \in DOMAIN output =>
                  /\ Len(sent) = 1
                  /\ output["ask_to_run_code"] = PyStr(sent[1].data)
                  /\ typed[1] = YES => output["ask_to_run_code"] = PyStr(YES)
            /\ \A i \in DOMAIN dispatchLog :
                  dispatchLog[i].worker = "output_result" =>
                      dispatchLog[i].args.feedback = PyStr(sent[1].data)
            /\ "output_result" \in running =>
                  args["output_result"].feedback = PyStr(sent[1].data))
    /\ [][ ("ask_to_run_code" \in running /\ "ask_to_run_code" \notin running') =>
             /\ status = RUNNING
             /\ status' = RUNNING
             /\ handling = "returned"
             /\ output'["ask_to_run_code"] = PyStr(sent[1].data)
       ]_vars

\* C11 witness: the handler answered "yes", ask_to_run_code returned it and
\* output_result is in execution with it as feedback.
C11_Witness ==
    /\ automa = CodeAssistant
    /\ status = RUNNING
    /\ "output_result" \in running
    /\ sent = << Feedback(YES) >>
    /\ output["ask_to_run_code"] = PyStr(YES)
    /\ args["output_result"].feedback = PyStr(YES)


\* C12: a step passes code to exec only when the one answer the user typed
\* at the can_run_code prompt is exactly "yes", and it is output_result that
\* takes it; once output_result has run after any other answer ("no", the
\* empty line, "y", "YES"), nothing was executed and the code was printed as
\* rejected, once.
C12_ExecOnlyOnYes ==
    /\ [][ executed' # executed =>
             /\ "output_result" \in running
             /\ typed = << YES >>
             /\ args["output_result"].feedback = PyStr(YES)
             /\ Len(executed') = 1
             /\ rejected' = <<>>
       ]_vars
    /\ [](executed # <<>> => typed = << YES >> /\ rejected = <<>>)
    /\ []((typed # <<>> /\ typed[1] # YES) => executed = <<>>)
    /\ []((typed # <<>> /\ typed[1] # YES /\ "output_result" \in DOMAIN output) =>
            rejected = << StripFences(output["generate_code"].value) >>)

\* C12 witness: the user typed "YES" in capitals, output_result has run, and
\* the code was printed as rejected and not executed.
C12_Witness ==
    /\ typed = << <<"Y", "E", "S">> >>
    /\ "output_result" \in DOMAIN output
    /\ executed = <<>>
    /\ Len(rejected) = 1


\* A dispatch history without the repeated dispatches: an entry equal to the
\* one before it (the same worker with the same inputs) is left out.
RECURSIVE Collapse(_)
Collapse(s) ==
    IF Len(s) <= 1 THEN s
    ELSE IF s[1] = s[2]
         THEN Collapse(Tail(s))
         ELSE << s[1] >> \o Collapse(Tail(s))

C14_SnapshotRestoresState ==
    /\ [][ (pc = "load_from_snapshot" /\ pc' = "resume") =>
             /\ output' = output
             /\ pending' = pending
             /\ interactions' = interactions
             /\ status' = SUSPENDED
             /\ running' = {}
             /\ output' = decode(raised.snapshot).output
             /\ pending' = decode(raised.snapshot).pending
             /\ interactions' = decode(raised.snapshot).interactions
       ]_vars
    /\ [](pc = "resume" =>
            /\ DOMAIN output = { "load_record", "audit_by_rules" }
            /\ pending = { "execute_payment" }
            /\ Len(interactions) = 1
            /\ interactions[1].worker = "execute_payment"
            /\ Len(dispatchLog) = 3)
    /\ [][ (run = 2 /\ dispatchLog' # dispatchLog) =>
             /\ dispatchLog = SubSeq(dispatchLog', 1, 3)
             /\ Len(dispatchLog') = 4
             /\ dispatchLog'[4].worker = "execute_payment"
             /\ dispatchLog'[3].worker = "execute_payment"
             /\ dispatchLog'[4].args = dispatchLog'[3].args
       ]_vars
    /\ [](run = 2 =>
            /\ output["load_record"] = dispatchLog[3].args.record
            /\ output["audit_by_rules"] = dispatchLog[3].args.result
            /\ \A i \in DOMAIN dispatchLog :
                  dispatchLog[i].worker \in { "load_record", "audit_by_rules" } =>
                      i < 3)

\* C14 witness: in the resumed run execute_payment is in execution for the
\* second time, with the inputs of its first dispatch, and the two workers
\* before it were dispatched once.
C14_Witness ==
    /\ run = 2
    /\ status = RUNNING
    /\ "execute_payment" \in running
    /\ Len(dispatchLog) = 4
    /\ dispatchLog[4] = dispatchLog[3]
    /\ args["execute_payment"] = dispatchLog[3].args
    /\ locals.snapshot.type = "Snapshot"


\* C15: a loaded Snapshot whose serialization_version is not the one the
\* engine recognizes decodes to SnapshotError; the load_from_snapshot step on
\* it ends main with SnapshotError and leaves the execution state, the
\* dispatch history and the payments as they were; and after a SnapshotError
\* no run was started, nothing was dispatched and the interaction is still
\* unresolved.
C15_UnknownVersionFails ==
    /\ [](( /\ pc = "load_from_snapshot"
            /\ locals.snapshot.value.serialization_version # SERIALIZATION_VERSION )
          => decode(locals.snapshot.value) = SnapshotError)
    /\ [][ ( /\ pc = "load_from_snapshot"
             /\ locals.snapshot.value.serialization_version # SERIALIZATION_VERSION )
           => ( /\ pc' = "crashed"
                /\ raised'.type = "SnapshotError"
                /\ UNCHANGED <<run, status, output, pending, interactions,
                               running, args, feedbacks, dispatchLog, payments>> )
       ]_vars
    /\ [](raised.type = "SnapshotError" =>
            /\ pc = "crashed"
            /\ run = 1
            /\ status = SUSPENDED
            /\ Len(dispatchLog) = 3
            /\ Len(interactions) = 1
            /\ "execute_payment" \notin DOMAIN output
            /\ payments = <<>>)
    /\ [][ raised.type = "SnapshotError" => UNCHANGED vars ]_vars

\* C15 witness: main has ended with SnapshotError on a snapshot read back
\* with the version tag of another release.
C15_Witness ==
    /\ raised.type = "SnapshotError"
    /\ pc = "crashed"
    /\ locals.snapshot.value.serialization_version = <<"2", ".", "0">>
    /\ status = SUSPENDED
    /\ Len(dispatchLog) = 3


\* C16: for every Snapshot, what load_snapshot_from_database reads back from
\* the db_context that save_snapshot_to_database returned has the
\* serialized_bytes and the serialization_version of the Snapshot saved.
C16_PersistenceRoundTrip ==
    pc = "loaded" =>
        /\ locals.snapshot.value.serialized_bytes = kwargs.snapshot.serialized_bytes
        /\ locals.snapshot.value.serialization_version =
              kwargs.snapshot.serialization_version

\* C16 witness: a Snapshot whose version holds a carriage return was saved
\* and read back; the bytes are those saved, the version is not.
C16_Witness ==
    /\ pc = "loaded"
    /\ kwargs.snapshot.serialization_version = <<"1", "\r", "0">>
    /\ locals.snapshot.value.serialization_version = <<"1", "\n", "0">>
    /\ locals.snapshot.value.serialized_bytes = kwargs.snapshot.serialized_bytes
    /\ kwargs.snapshot.serialized_bytes = <<0, 255, 13>>


\* C17: the audit result is not passed exactly when the amount is above
\* 2500; the step of execute_payment that holds such a result returns False,
\* records no interaction and completes the run; with such an amount the run
\* is never SUSPENDED, no InteractionException is raised, no snapshot file is
\* written and no payment is launched; and the run reaches COMPLETED.
C17_FailedAuditCompletes ==
    /\ []("audit_by_rules" \in DOMAIN output =>
            (output["audit_by_rules"].value.passed
               <=> dbRecord.reimbursement_amount <= AUDIT_LIMIT))
    /\ [][ ( /\ "execute_payment" \in running
             /\ "execute_payment" \notin running'
             /\ ~args["execute_payment"].result.value.passed )
           => ( /\ output'["execute_payment"] = PyBool(FALSE)
                /\ interactions' = <<>>
                /\ status = RUNNING
                /\ status' = COMPLETED
                /\ payments' = <<>> )
       ]_vars
    /\ []((automa = ReimbursementWorkflow
           /\ dbRecord.reimbursement_amount > AUDIT_LIMIT) =>
            /\ status \in { NONE, RUNNING, COMPLETED }
            /\ interactions = <<>>
            /\ raised.type # "InteractionException"
            /\ files = <<>>
            /\ locals.db_context = Unbound
            /\ payments = <<>>
            /\ run <= 1)
    /\ (( /\ automa = ReimbursementWorkflow
          /\ dbRecord.reimbursement_amount > AUDIT_LIMIT
          /\ pc = "in_arun" )
        ~> ( /\ status = COMPLETED
             /\ pc # "in_arun"
             /\ "execute_payment" \in DOMAIN output
             /\ output["execute_payment"] = PyBool(FALSE) ))

\* C17 witness: with an amount of 2501 the first arun has returned, the run
\* is COMPLETED, execute_payment returned False and nothing was saved or
\* paid.
C17_Witness ==
    /\ automa = ReimbursementWorkflow
    /\ dbRecord.reimbursement_amount = 2501
    /\ status = COMPLETED
    /\ pc # "in_arun"
    /\ output["execute_payment"] = PyBool(FALSE)
    /\ ~output["audit_by_rules"].value.passed
    /\ files = <<>>
    /\ payments = <<>>


\* The positions of the dispatches of worker w.
DispatchesOf(w) == { i \in DOMAIN dispatchLog : dispatchLog[i].worker = w }

\* C18: over the first run and the resume main performs, at most one payment
\* is launched: none while the first run lasts, although execute_payment was
\* started in it, and the one payment is launched in the resumed run by the
\* second start of execute_payment; execute_payment is started at most
\* twice, and twice once the resumed run has completed.
C18_PaymentAtMostOnce ==
    /\ [](Len(payments) <= 1)
    /\ [](run <= 1 => payments = <<>>)
    /\ [](Cardinality(DispatchesOf("execute_payment")) <= 2)
    /\ []((run = 2 /\ status = COMPLETED) =>
            Cardinality(DispatchesOf("execute_payment")) = 2)
    /\ [][ payments' # payments =>
             /\ run = 2
             /\ payments = <<>>
             /\ payments' = << REQUEST_ID >>
             /\ Cardinality(DispatchesOf("execute_payment")) = 2
             /\ "execute_payment" \in running
       ]_vars
    /\ [](run <= 2)

\* C18 witness: the resumed run has completed with the payment launched,
\* once, after two starts of execute_payment.
C18_Witness ==
    /\ run = 2
    /\ status = COMPLETED
    /\ payments = << REQUEST_ID >>
    /\ Cardinality(DispatchesOf("execute_payment")) = 2
    /\ pc = "done"


====
